---- MODULE Spec2Model ----
(***************************************************************************)
(* systime: tick widener, millisecond accumulator and second accumulator   *)
(* of MarioIvancic/systime, in its two packagings:                         *)
(*   fused  - systime.c / systime.h        (systime_init, systicks,        *)
(*            systime3, systimelast3, systime, systimelast, systime_adj,   *)
(*            systime_set)                                                 *)
(*   split  - systime_tick.c, systime_ms.c, systime_sec.c                  *)
(* Each packaging is modelled in both of its builds: "loop" (the subtract  *)
(* ladder, the build the sources select as they stand) and "div" (the      *)
(* integer-divide branch of the #if).  Both builds are driven by the same  *)
(* calls and the same hardware samples.                                    *)
(*                                                                         *)
(* `unsigned` is NativeBits = 16 bits wide, and WideBits = 17 on the       *)
(* target of the 16-bit register scenario; uint32_t values are pairs       *)
(* <<high half, low half>> of 16-bit halves.  `unsigned long` is as wide   *)
(* as `unsigned`, as on the ILP32 and LLP64 targets.                       *)
(***************************************************************************)
EXTENDS Integers, Sequences, FiniteSets, TLC

\* ------------------------------------------------------------- bounds
\* number of calls and hardware advances in one run
MaxSteps == 5
\* number of init calls in one run
MaxInits == 2

\* ------------------------------------------------------------- variables
VARIABLES
    hw,       \* the free-running hardware counter (its low hw_bits are the register)
    pkg,      \* the packaging linked into the firmware: "fused" or "split"
    fused,    \* [Builds -> the statics of systime.c]
    fcfg,     \* the arguments of the last systime_init (hw_bits is not stored by the code)
    split,    \* [Builds -> the statics of systime_tick.c, systime_ms.c, systime_sec.c]
    scfg,     \* the arguments of the last systime_tick_init and systime_time_init
    base,     \* [Builds -> last aligned tick and millisecond count when ticks1ms was set]
    preset,   \* the statics before the last set call, while only the hardware ran since
    op,       \* the last operation
    arg,      \* its argument (systime_adj, systime_set, systime_sec_set)
    again,    \* the last operation repeated the one called before it
    ret,      \* [Builds -> what the last operation returned and stored through t]
    hwcalls,  \* [Builds -> calls of the hardware source made by the last operation]
    since,    \* hardware counts since the last sample (saturates at UMod)
    since2,   \* the same, had the set calls not sampled
    inits,    \* init calls made
    steps,    \* events so far
    mac,      \* a caller of the macros of systime_tick.h: the value it read, the
              \* counter since, the macro's result
    twin,     \* the masked path of the tick functions run beside a pass-through
              \* configuration on the same samples
    word,     \* 8 * sizeof(unsigned) of the target the firmware is built for
    trace,    \* the samples fed to the queries of a scripted run and what each
              \* query left
    spin,     \* the call whose loop the default build never leaves, "none" if none
    other     \* [Builds -> the statics of systime.c] of a second run of the fused
              \* packaging on the same hardware counter, polled on its own schedule

\* ------------------------------------------------------------- words
\* width of `unsigned` on the modelled target: 8 * sizeof(unsigned)
NativeBits == 16

\* width of `unsigned` on a target whose word is wider than a 16-bit register
WideBits == 17

UnsignedBits == word

UMod == 2 ^ UnsignedBits

UMax == UMod - 1

\* 8 * sizeof(unsigned long): unsigned long is as wide as unsigned
ULongBits == UnsignedBits

\* unsigned addition, subtraction and multiplication wrap at the word size
UAdd(a, b) == (a + b) % UMod

USub(a, b) == (a - b + UMod) % UMod

UMul(a, b) == (a * b) % UMod

\* a & b on non-negative integers
RECURSIVE BitAnd(_, _)
BitAnd(a, b) ==
    IF a = 0 \/ b = 0 THEN 0
    ELSE (a % 2) * (b % 2) + 2 * BitAnd(a \div 2, b \div 2)

\* uint32_t: <<high 16 bits, low 16 bits>>
U32(hi, lo) == <<hi, lo>>

U32Zero == U32(0, 0)

\* conversion of an unsigned (16-bit) value to uint32_t
U32Of(x) == U32(0, x)

U32Add(a, b) ==
    LET lo == a[2] + b[2]
        hi == a[1] + b[1] + (lo \div 65536)
    IN  U32(hi % 65536, lo % 65536)

U32Neg(a) ==
    IF a = U32Zero THEN U32Zero
    ELSE IF a[2] = 0 THEN U32(65536 - a[1], 0)
    ELSE U32(65535 - a[1], 65536 - a[2])

U32Sub(a, b) == U32Add(a, U32Neg(b))

\* ------------------------------------------------------------- inputs
Builds == {"loop", "div"}

\* hardware counts that pass between two events of a run
Deltas == {192, 3501, 30000}

\* systime_init(fcn, hw_bits, tick_multiplier, ticks_for_1ms)
FusedCfgs ==
    { [hw_bits |-> 8,  mult |-> 1,  t1ms |-> 16],
      [hw_bits |-> 16, mult |-> 1,  t1ms |-> 1000],
      [hw_bits |-> 16, mult |-> 2,  t1ms |-> 7] }

\* systime_tick_init(fcn, hw_bits, tick_multiplier)
TickCfgs ==
    { [hw_bits |-> 8,  mult |-> 1],
      [hw_bits |-> 16, mult |-> 1],
      [hw_bits |-> 16, mult |-> 2] }

\* systime_time_init(ticks_for_1ms)
TimeCfgs == {16, 1000}

\* arguments of systime_sec_set
SecSetArgs == {2, 65535}

\* arguments of systime_adj and systime_set
AdjArgs == { U32(0, 1), U32(65535, 65535) }

SetArgs == { U32(0, 5), U32(65535, 65535) }

NoCfg == [hw_bits |-> 0, mult |-> 0, t1ms |-> 0]

\* ------------------------------------------------------------- state
\* the firmware's calls and what they leave
MainVars == <<hw, pkg, word, fused, fcfg, split, scfg, base, preset, op, arg, again, ret,
              hwcalls, since, since2, inits, steps>>

\* what the firmware's calls leave alone
Callers == <<mac, trace, spin, other>>

Aux == <<Callers, twin>>

vars == <<MainVars, Aux>>

\* the statics of systime.c, zero-initialised
FusedZero ==
    [ ticks |-> 0, tickmult |-> 0, mask |-> 0, ticks1ms |-> 0,
      ticks10ms |-> 0, ticks100ms |-> 0, milisec |-> 0,
      sec |-> U32Zero, sec_offset |-> U32Zero, use_hw_systicks |-> 0,
      last_timer_ticks |-> 0, last_systime_ticks |-> 0, last_ms |-> 0,
      systickshw |-> "NULL" ]

\* systime3_t
Systime3T(sec, msec, ticks) == [sec |-> sec, msec |-> msec, ticks |-> ticks]

NoRet == Systime3T(U32Zero, 0, 0)

\* ------------------------------------------------------------- hardware
\* the value the hardware source returns: the hw_bits wide register
ReadTimer(h, hw_bits) == h % (2 ^ hw_bits)

\* ------------------------------------------------------------- systime.c
\* what a call leaves: the statics, the systime3_t it filled, its return value and
\* the number of calls of the hardware source it made
Result(st, t, val, calls) == [st |-> st, t |-> t, val |-> val, calls |-> calls]

\* a widener that takes the register value for the tick count
WidenRaw(s, now, diff) ==
    [s EXCEPT !.ticks = UMul(now, s.tickmult), !.last_timer_ticks = now]

\* systime.c:126-130, the masked path of systicks(); now is what systickshw() returned
Widen(s, now, diff) ==
    [s EXCEPT !.ticks = UAdd(@, UMul(diff, s.tickmult)), !.last_timer_ticks = now]

SysticksMasked(s2) == Result(s2, NoRet, s2.ticks, 1)

\* systicks() without the shortcut of systime.c:123
SysticksAlwaysMasked(s, raw) ==
    SysticksMasked(Widen(s, raw, BitAnd(USub(raw, s.last_timer_ticks), s.mask)))

\* systime.c:121 systicks(); raw is the value systickshw() returns
Systicks(s, raw) ==
    IF s.use_hw_systicks = 1
    THEN Result(s, NoRet, raw, 1)
    ELSE SysticksMasked(Widen(s, raw, BitAnd(USub(raw, s.last_timer_ticks), s.mask)))

\* the condition of the tick loops: (now - last) > step
TicksOver(now, last, step) == USub(now, last) > step

\* if((now - last) > step) { last += step; count += inc; } on lc = <<last, count>>
TicksStep(now, lc, step, inc) ==
    IF TicksOver(now, lc[1], step)
    THEN <<UAdd(lc[1], step), UAdd(lc[2], inc)>>
    ELSE lc

\* eight times the same
TicksStep8(now, lc, step, inc) ==
    TicksStep(now, TicksStep(now, TicksStep(now, TicksStep(now,
    TicksStep(now, TicksStep(now, TicksStep(now, TicksStep(now, lc,
        step, inc), step, inc), step, inc), step, inc),
        step, inc), step, inc), step, inc), step, inc)

\* while((now - last) > step) { last += step; count += inc; } on lc = <<last, count>>;
\* the loop is unrolled eight times: while(c) b  is  while(c) { b; if(c) b; ... if(c) b; }
RECURSIVE WhileTicks(_, _, _, _)
WhileTicks(now, lc, step, inc) ==
    IF TicksOver(now, lc[1], step)
    THEN WhileTicks(now, TicksStep8(now, lc, step, inc), step, inc)
    ELSE lc

\* the condition of the seconds loop of systime3: (milisec - last_ms) > 1000
MsOver(milisec, last_ms) == USub(milisec, last_ms) > 1000

\* while((milisec - last_ms) > 1000) { last_ms += 1000; sec++; }
RECURSIVE WhileMs(_, _, _)
WhileMs(milisec, last_ms, sec) ==
    IF MsOver(milisec, last_ms)
    THEN WhileMs(milisec, UAdd(last_ms, 1000), U32Add(sec, U32Of(1)))
    ELSE <<last_ms, sec>>

StoreMs(s, lc) == [s EXCEPT !.last_systime_ticks = lc[1], !.milisec = lc[2]]

StoreSec(s, ls) == [s EXCEPT !.last_ms = ls[1], !.sec = ls[2]]

\* systime.c:170-174
SecondsLoop(s) == StoreSec(s, WhileMs(s.milisec, s.last_ms, s.sec))

\* the ladder with the count of the 100 ms rung on the 10 ms rung
MillisLoopMixed(s, now) ==
    StoreMs(s, WhileTicks(now, WhileTicks(now, WhileTicks(now,
                   <<s.last_systime_ticks, s.milisec>>, s.ticks100ms, 100),
                   s.ticks10ms, 100), s.ticks1ms, 1))

\* systime.c:155-169
MillisLoop(s, now) ==
    StoreMs(s, WhileTicks(now, WhileTicks(now, WhileTicks(now, <<s.last_systime_ticks, s.milisec>>,
                                        s.ticks100ms, 100),
                              s.ticks10ms, 10),
                    s.ticks1ms, 1))

\* while((now - last) > step) last += step;  with step 0 and ticks pending: the
\* condition stays true and the body changes nothing
RungSpins(now, last, step) == step = 0 /\ TicksOver(now, last, step)

\* systime.c:155-169 never reaches line 170
MillisLoopSpins(s, now) ==
    IF RungSpins(now, s.last_systime_ticks, s.ticks100ms) THEN TRUE
    ELSE IF RungSpins(now, WhileTicks(now, <<s.last_systime_ticks, s.milisec>>,
                                      s.ticks100ms, 100)[1], s.ticks10ms) THEN TRUE
    ELSE RungSpins(now, WhileTicks(now, WhileTicks(now, <<s.last_systime_ticks, s.milisec>>,
                                                   s.ticks100ms, 100),
                                   s.ticks10ms, 10)[1], s.ticks1ms)

\* systime.c:155-174, the subtract ladder
AccountLoop(s, now) == SecondsLoop(MillisLoop(s, now))

\* systime.c:146-148
MillisDivBy(s, diff) ==
    [s EXCEPT !.milisec = UAdd(@, diff),
              !.last_systime_ticks = UAdd(@, UMul(diff, s.ticks1ms))]

MillisDiv(s, now) == MillisDivBy(s, USub(now, s.last_systime_ticks) \div s.ticks1ms)

\* systime.c:150-152
SecondsDivBy(s, diff) ==
    [s EXCEPT !.sec = U32Add(@, U32Of(diff)), !.last_ms = UAdd(@, UMul(diff, 1000))]

SecondsDiv(s) == SecondsDivBy(s, USub(s.milisec, s.last_ms) \div 1000)

\* systime.c:146-152, the integer-divide branch
AccountDiv(s, now) == SecondsDiv(MillisDiv(s, now))

\* fill *t with the free-running seconds, the offset left out
Fill3NoOffset(s, now, calls) ==
    Result(s, Systime3T(s.sec, s.milisec, now), s.milisec, calls)

\* systime.c:177-184: fill *t and return milisec
Fill3(s, now, calls) ==
    Result(s, Systime3T(U32Add(s.sec, s.sec_offset), s.milisec, now), s.milisec, calls)

\* systime.c:145-184 in build b, after now was sampled by q
Account3(q, b) ==
    Fill3(IF b = "div" THEN AccountDiv(q.st, q.val) ELSE AccountLoop(q.st, q.val),
          q.val, q.calls)

\* systime3() sampling the source itself before it calls systicks()
Systime3Twice(s, raw, b) ==
    IF s.use_hw_systicks = 1
    THEN Account3(Result(s, NoRet, raw, 1), b)
    ELSE Account3([Systicks(s, raw) EXCEPT !.calls = @ + 1], b)

\* systime3() of the default build does not return
Systime3Spins(s, raw) == MillisLoopSpins(Systicks(s, raw).st, Systicks(s, raw).val)

\* systime.c:138 systime3(&t) in build b
Systime3(s, raw, b) ==
    Account3(IF s.use_hw_systicks = 1 THEN Result(s, NoRet, raw, 1) ELSE Systicks(s, raw), b)

\* systimelast3() handing back the raw register value last sampled
Systimelast3Raw(s) ==
    Result(s, Systime3T(U32Add(s.sec, s.sec_offset), s.milisec, s.last_timer_ticks),
           s.milisec, 0)

\* systimelast3() catching last_systime_ticks up with the tick counter
Systimelast3CatchUp(s) ==
    Result([s EXCEPT !.last_systime_ticks = UAdd(@, 1)],
           Systime3T(U32Add(s.sec, s.sec_offset), s.milisec, s.last_systime_ticks),
           s.milisec, 0)

\* systime.c:193 systimelast3(&t)
Systimelast3(s) ==
    Result(s, Systime3T(U32Add(s.sec, s.sec_offset), s.milisec, s.last_systime_ticks),
           s.milisec, 0)

\* return t.sec
ReturnSec(r) == [r EXCEPT !.val = r.t.sec]

\* systime.c:207 systime()
Systime(s, raw, b) == ReturnSec(Systime3(s, raw, b))

\* systime.c:216 systimelast()
Systimelast(s) == ReturnSec(Systimelast3(s))

\* systime.c:226 systime_adj(adj)
SystimeAdj(s, adj) == [s EXCEPT !.sec_offset = U32Add(@, adj)]

\* systime_adj(now), the reported seconds not subtracted
AdjToAbsolute(r, target) == [r EXCEPT !.st = SystimeAdj(@, target)]

\* systime_adj(now - r), r what systime() returned
AdjTo(r, target) == [r EXCEPT !.st = SystimeAdj(@, U32Sub(target, r.val))]

\* systime.h:142 systime_set(now): systime_adj(now - systime())
SystimeSet(s, raw, b, target) == AdjTo(Systime(s, raw, b), target)

\* (1UL << hw_bits) - 1, converted to unsigned.  A shift by the width of
\* unsigned long or more is undefined: builds that take the shift count
\* modulo the width leave 1 - 1, builds that shift the bit out leave 0 - 1,
\* which is also what a target with a wider unsigned long computes
Masks(hw_bits) ==
    IF hw_bits < ULongBits THEN {((2 ^ hw_bits) - 1) % UMod} ELSE {0, UMax}

\* systime.c:100-105
InitMode(s, hw_bits, tick_multiplier, m) ==
    IF hw_bits = UnsignedBits /\ tick_multiplier = 1
    THEN [s EXCEPT !.use_hw_systicks = 1]
    ELSE [s EXCEPT !.use_hw_systicks = 0, !.mask = m]

\* systime.c:106-113
InitRates(s, b, tick_multiplier, ticks_for_1ms) ==
    IF b = "div"
    THEN [s EXCEPT !.tickmult = tick_multiplier, !.systickshw = "fcn",
                   !.ticks1ms = ticks_for_1ms]
    ELSE [s EXCEPT !.tickmult = tick_multiplier, !.systickshw = "fcn",
                   !.ticks1ms = ticks_for_1ms,
                   !.ticks10ms = UMul(10, ticks_for_1ms),
                   !.ticks100ms = UMul(100, ticks_for_1ms)]

\* systime.c:97 systime_init(fcn, hw_bits, tick_multiplier, ticks_for_1ms)
SystimeInit(s, raw, b, hw_bits, tick_multiplier, ticks_for_1ms, m) ==
    Systicks(InitRates(InitMode(s, hw_bits, tick_multiplier, m), b,
                       tick_multiplier, ticks_for_1ms), raw)

\* ------------------------------------------------------------- systime_tick.c
\* the statics of systime_tick.c, systime_ms.c and systime_sec.c
SplitZero ==
    [ systickshw |-> "NULL", systime_tick_current |-> "systime_tick_internal",
      last_timer_ticks |-> 0, systime_curr_ticks |-> 0, mask |-> 0, tickmult |-> 0,
      lastsystime_ticks |-> 0, ticks1ms |-> 10000, ticks50ms |-> 0,
      systime_curr_ms |-> 0, systime_curr_sec |-> 0, last_ms |-> 0 ]

\* systime_tick.c:97-101; now is what systickshw() returned
WidenTick(s, now, diff) ==
    [s EXCEPT !.systime_curr_ticks = UAdd(@, UMul(diff, s.tickmult)),
              !.last_timer_ticks = now]

ReturnTicks(s2) == Result(s2, NoRet, s2.systime_curr_ticks, 1)

\* systime_tick.c:95 systime_tick_internal(); raw is the value systickshw() returns
SystimeTickInternal(s, raw) ==
    ReturnTicks(WidenTick(s, raw, BitAnd(USub(raw, s.last_timer_ticks), s.mask)))

\* systime_tick.c:44 systime_tick(): systime_tick_current()
SystimeTick(s, raw) ==
    IF s.systime_tick_current = "fcn"
    THEN Result(s, NoRet, raw, 1)
    ELSE SystimeTickInternal(s, raw)

\* systime_tick.c:78-88
TickInitMode(s, hw_bits, tick_multiplier, m) ==
    IF hw_bits = UnsignedBits /\ tick_multiplier = 1
    THEN [s EXCEPT !.systime_tick_current = "fcn"]
    ELSE [s EXCEPT !.systime_tick_current = "systime_tick_internal",
                   !.tickmult = tick_multiplier,
                   !.systickshw = "fcn",
                   !.mask = m]

\* systime_tick.c:75 systime_tick_init(fcn, hw_bits, tick_multiplier)
SystimeTickInit(s, raw, hw_bits, tick_multiplier, m) ==
    SystimeTick(TickInitMode(s, hw_bits, tick_multiplier, m), raw)

\* ------------------------------------------------------------- systime_ms.c
StoreCurrMs(s, lc) == [s EXCEPT !.lastsystime_ticks = lc[1], !.systime_curr_ms = lc[2]]

\* systime_ms.c:52-61
CurrMsLoop(s, now) ==
    StoreCurrMs(s, WhileTicks(now, WhileTicks(now, <<s.lastsystime_ticks, s.systime_curr_ms>>,
                                  s.ticks50ms, 50),
                        s.ticks1ms, 1))

\* systime_ms.c:47-49
CurrMsDivBy(s, diff) ==
    [s EXCEPT !.systime_curr_ms = UAdd(@, diff),
              !.lastsystime_ticks = UAdd(@, UMul(diff, s.ticks1ms))]

CurrMsDiv(s, now) == CurrMsDivBy(s, USub(now, s.lastsystime_ticks) \div s.ticks1ms)

ReturnCurrMs(s2, calls) == Result(s2, NoRet, s2.systime_curr_ms, calls)

\* systime_ms.c:46-64 in build b, after now was sampled by q
AccountMs(q, b) ==
    ReturnCurrMs(IF b = "div" THEN CurrMsDiv(q.st, q.val) ELSE CurrMsLoop(q.st, q.val),
                 q.calls)

\* systime_ms.c:52-61 never reaches line 63
CurrMsLoopSpins(s, now) ==
    IF RungSpins(now, s.lastsystime_ticks, s.ticks50ms) THEN TRUE
    ELSE RungSpins(now, WhileTicks(now, <<s.lastsystime_ticks, s.systime_curr_ms>>,
                                   s.ticks50ms, 50)[1], s.ticks1ms)

\* systime_ms() of the default build does not return
SystimeMsSpins(s, raw) == CurrMsLoopSpins(SystimeTick(s, raw).st, SystimeTick(s, raw).val)

\* systime_ms.c:42 systime_ms() in build b
SystimeMs(s, raw, b) == AccountMs(SystimeTick(s, raw), b)

\* systime_ms.c:93-96
TimeInitRates(s, b, ticks_for_1ms) ==
    IF b = "div"
    THEN [s EXCEPT !.ticks1ms = ticks_for_1ms]
    ELSE [s EXCEPT !.ticks1ms = ticks_for_1ms, !.ticks50ms = UMul(50, ticks_for_1ms)]

\* systime_ms.c:91 systime_time_init(ticks_for_1ms)
SystimeTimeInit(s, raw, b, ticks_for_1ms) ==
    SystimeMs(TimeInitRates(s, b, ticks_for_1ms), raw, b)

\* ------------------------------------------------------------- systime_sec.c
\* { last_ms += 1000; systime_curr_sec++; }
SecBody(s) == [s EXCEPT !.last_ms = UAdd(@, 1000), !.systime_curr_sec = UAdd(@, 1)]

ReturnCurrSec(s2, calls) == Result(s2, NoRet, s2.systime_curr_sec, calls)

\* systime_sec.c:44 while((systime_ms() - last_ms) >= 1000) { ... }
\* every evaluation of the condition calls systime_ms(), whose result is q;
\* calls counts the hardware samples of the evaluations before
RECURSIVE WhileSec(_, _, _, _)
WhileSec(q, raw, b, calls) ==
    IF USub(q.val, q.st.last_ms) >= 1000
    THEN WhileSec(SystimeMs(SecBody(q.st), raw, b), raw, b, calls + q.calls)
    ELSE ReturnCurrSec(q.st, calls + q.calls)

\* systime_sec.c:40-42
SecDivBy(q, diff) ==
    ReturnCurrSec([q.st EXCEPT !.systime_curr_sec = UAdd(@, diff),
                               !.last_ms = UAdd(@, UMul(diff, 1000))], q.calls)

SecDiv(q) == SecDivBy(q, USub(q.val, q.st.last_ms) \div 1000)

\* systime_sec.c:37 systime_sec() in build b
SystimeSec(s, raw, b) ==
    IF b = "div"
    THEN SecDiv(SystimeMs(s, raw, b))
    ELSE WhileSec(SystimeMs(s, raw, b), raw, b, 0)

\* a set that also restarts the running second
SecAdjustPhase(q, current_time) ==
    [q EXCEPT !.st.systime_curr_sec = current_time, !.st.last_ms = q.st.systime_curr_ms]

\* systime_sec.c:59-66; q is what systime_sec() left, q.val what it returned
SecAdjust(q, current_time) ==
    IF q.val > current_time
    THEN [q EXCEPT !.st.systime_curr_sec = USub(@, USub(q.val, current_time))]
    ELSE [q EXCEPT !.st.systime_curr_sec = UAdd(@, USub(current_time, q.val))]

\* systime_sec.c:55 systime_sec_set(current_time)
SystimeSecSet(s, raw, b, current_time) == SecAdjust(SystimeSec(s, raw, b), current_time)

\* ------------------------------------------------------------- systime_tick.h
\* the subtraction done in a type wider than unsigned
ElapsedWide(now, start) == now - start

\* systime_tick.h:104,110,116 (systime_xxx() - (start)), now what the call returned
Elapsed(now, start) == USub(now, start)

\* systime_tick.h:107,113,119 ((systime_xxx() - (start)) >= (interval))
Expired(now, start, interval) == Elapsed(now, start) >= interval

\* ------------------------------------------------------------- actions
Budget == steps < MaxSteps

FusedReady == pkg = "fused" /\ fused["loop"].systickshw = "fcn" /\ Budget

\* systime_tick() can be called: the source it calls has been registered
TickReady ==
    /\ pkg = "split" /\ Budget
    /\ \/ split["loop"].systime_tick_current = "fcn"
       \/ split["loop"].systickshw = "fcn"

\* systime_ms() can be called: systime_time_init has set ticks1ms and ticks50ms
TimeReady == TickReady /\ scfg.t1ms # 0

\* the register value the packaging's hardware source returns now
FRaw == ReadTimer(hw, fcfg.hw_bits)

SRaw == ReadTimer(hw, scfg.hw_bits)

NoPreset == [valid |-> FALSE, fused |-> [b \in Builds |-> FusedZero],
             split |-> [b \in Builds |-> SplitZero]]

ZeroBase == [b \in Builds |-> [last |-> 0, ms |-> 0]]

\* no caller of the macros
NoMacro == [unit |-> "none", start |-> 0, now |-> 0, d |-> 0, interval |-> 0,
            elapsed |-> 0, expired |-> FALSE, mop |-> "none"]

\* the statics as the loader leaves them, nothing called yet
Zeroed ==
    /\ hw = 0
    /\ fused = [b \in Builds |-> FusedZero]
    /\ fcfg = NoCfg
    /\ split = [b \in Builds |-> SplitZero]
    /\ scfg = NoCfg
    /\ base = ZeroBase
    /\ preset = NoPreset
    /\ op = "none"
    /\ arg = 0
    /\ again = FALSE
    /\ ret = [b \in Builds |-> [t |-> NoRet, val |-> 0]]
    /\ hwcalls = [b \in Builds |-> 0]
    /\ since = 0
    /\ since2 = 0
    /\ inits = 0
    /\ steps = 0

\* the masked path configured for a register as wide as unsigned, multiplier 1:
\* systime.c:103-105, systime_tick.c:84-87 with hw_bits the width of the word
TwinZero(on) ==
    [ on |-> on,
      f |-> [FusedZero EXCEPT !.use_hw_systicks = 0, !.mask = UMax, !.tickmult = 1],
      s |-> [SplitZero EXCEPT !.mask = UMax, !.tickmult = 1] ]

\* the twin samples the register whenever the firmware does
TwinFollows ==
    twin' = IF twin.on
            THEN [twin EXCEPT
                    !.f = Systicks(@, ReadTimer(hw, UnsignedBits)).st,
                    !.s = SystimeTickInternal(@, ReadTimer(hw, UnsignedBits)).st]
            ELSE twin

Init ==
    /\ word = NativeBits
    /\ pkg \in {"fused", "split"}
    /\ Zeroed
    /\ mac = NoMacro
    /\ twin = TwinZero(FALSE)
    /\ trace = <<>>
    /\ spin = "none"
    /\ other = [b \in Builds |-> FusedZero]

\* what the caller of a void function sees
Void == [t |-> NoRet, val |-> 0]

\* the calls' effect on the statics and what the caller sees of it
FusedLeft(r, void) ==
    /\ fused' = [b \in Builds |-> r[b].st]
    /\ hwcalls' = [b \in Builds |-> r[b].calls]
    /\ ret' = [b \in Builds |-> IF void THEN Void ELSE [t |-> r[b].t, val |-> r[b].val]]

SplitLeft(r, void) ==
    /\ split' = [b \in Builds |-> r[b].st]
    /\ hwcalls' = [b \in Builds |-> r[b].calls]
    /\ ret' = [b \in Builds |-> IF void THEN Void ELSE [t |-> r[b].t, val |-> r[b].val]]

Saturate(n) == IF n > UMod THEN UMod ELSE n

\* the hardware counter runs on, by one of ds
HwAdvanceBy(ds) ==
    /\ Budget
    /\ \E d \in ds :
        /\ hw' = (hw + d) % UMod
        /\ since' = Saturate(since + d)
        /\ since2' = Saturate(since2 + d)
    /\ steps' = steps + 1
    /\ UNCHANGED <<pkg, word, fused, fcfg, split, scfg, base, preset, op, arg, again, ret,
                   hwcalls, inits>>
    /\ UNCHANGED Aux

HwAdvance == HwAdvanceBy(Deltas)

\* a call that samples the hardware and is no set call
Sampled ==
    /\ since' = 0
    /\ since2' = 0
    /\ preset' = NoPreset
    /\ steps' = steps + 1
    /\ UNCHANGED Callers
    /\ TwinFollows

\* a call that samples nothing
Unsampled ==
    /\ preset' = NoPreset
    /\ steps' = steps + 1
    /\ UNCHANGED <<since, since2>>
    /\ UNCHANGED Aux

\* a set call keeps the statics it found for as long as only the hardware runs
KeepPreset ==
    /\ preset' = IF preset.valid THEN preset
                 ELSE [valid |-> TRUE, fused |-> fused, split |-> split]
    /\ since' = 0
    /\ steps' = steps + 1
    /\ UNCHANGED since2
    /\ UNCHANGED Callers
    /\ TwinFollows

\* systime_init with arguments out of cfgs
SystimeInitWith(cfgs) ==
    /\ pkg = "fused" /\ Budget /\ inits < MaxInits
    /\ \E c \in cfgs : \E m \in Masks(c.hw_bits) :
        /\ FusedLeft([b \in Builds |->
                        SystimeInit(fused[b], ReadTimer(hw, c.hw_bits), b,
                                    c.hw_bits, c.mult, c.t1ms, m)], TRUE)
        /\ fcfg' = c
    /\ base' = [b \in Builds |->
                  [last |-> fused[b].last_systime_ticks, ms |-> fused[b].milisec]]
    /\ op' = "systime_init"
    /\ again' = (op = "systime_init")
    /\ arg' = 0
    /\ inits' = inits + 1
    /\ Sampled
    /\ UNCHANGED <<hw, pkg, word, split, scfg>>

DoSystimeInit == SystimeInitWith(FusedCfgs)

DoSysticks ==
    /\ FusedReady
    /\ FusedLeft([b \in Builds |-> Systicks(fused[b], FRaw)], FALSE)
    /\ op' = "systicks"
    /\ again' = (op = "systicks")
    /\ arg' = 0
    /\ Sampled
    /\ UNCHANGED <<hw, pkg, word, fcfg, split, scfg, base, inits>>

DoSystime3 ==
    /\ FusedReady
    /\ FusedLeft([b \in Builds |-> Systime3(fused[b], FRaw, b)], FALSE)
    /\ op' = "systime3"
    /\ again' = (op = "systime3")
    /\ arg' = 0
    /\ Sampled
    /\ UNCHANGED <<hw, pkg, word, fcfg, split, scfg, base, inits>>

DoSystimelast3 ==
    /\ FusedReady
    /\ FusedLeft([b \in Builds |-> Systimelast3(fused[b])], FALSE)
    /\ op' = "systimelast3"
    /\ again' = (op = "systimelast3")
    /\ arg' = 0
    /\ Unsampled
    /\ UNCHANGED <<hw, pkg, word, fcfg, split, scfg, base, inits>>

DoSystime ==
    /\ FusedReady
    /\ FusedLeft([b \in Builds |-> Systime(fused[b], FRaw, b)], FALSE)
    /\ op' = "systime"
    /\ again' = (op = "systime")
    /\ arg' = 0
    /\ Sampled
    /\ UNCHANGED <<hw, pkg, word, fcfg, split, scfg, base, inits>>

DoSystimelast ==
    /\ FusedReady
    /\ FusedLeft([b \in Builds |-> Systimelast(fused[b])], FALSE)
    /\ op' = "systimelast"
    /\ again' = (op = "systimelast")
    /\ arg' = 0
    /\ Unsampled
    /\ UNCHANGED <<hw, pkg, word, fcfg, split, scfg, base, inits>>

DoSystimeAdj ==
    /\ FusedReady
    /\ \E adj \in AdjArgs :
        /\ FusedLeft([b \in Builds |-> Result(SystimeAdj(fused[b], adj), NoRet, 0, 0)], TRUE)
        /\ arg' = adj
    /\ op' = "systime_adj"
    /\ again' = (op = "systime_adj")
    /\ Unsampled
    /\ UNCHANGED <<hw, pkg, word, fcfg, split, scfg, base, inits>>

DoSystimeSet ==
    /\ FusedReady
    /\ \E target \in SetArgs :
        /\ FusedLeft([b \in Builds |-> SystimeSet(fused[b], FRaw, b, target)], TRUE)
        /\ arg' = target
    /\ op' = "systime_set"
    /\ again' = (op = "systime_set")
    /\ KeepPreset
    /\ UNCHANGED <<hw, pkg, word, fcfg, split, scfg, base, inits>>

\* systime_tick_init with arguments out of cfgs
SystimeTickInitWith(cfgs) ==
    /\ pkg = "split" /\ Budget /\ inits < MaxInits
    /\ \E c \in cfgs : \E m \in Masks(c.hw_bits) :
        /\ SplitLeft([b \in Builds |->
                        SystimeTickInit(split[b], ReadTimer(hw, c.hw_bits),
                                        c.hw_bits, c.mult, m)], TRUE)
        /\ scfg' = [scfg EXCEPT !.hw_bits = c.hw_bits, !.mult = c.mult]
    /\ op' = "systime_tick_init"
    /\ again' = (op = "systime_tick_init")
    /\ arg' = 0
    /\ inits' = inits + 1
    /\ Sampled
    /\ UNCHANGED <<hw, pkg, word, fused, fcfg, base>>

DoSystimeTickInit == SystimeTickInitWith(TickCfgs)

\* systime_time_init with an argument out of ts, its priming query returning
SystimeTimeInitWith(ts) ==
    /\ TickReady /\ inits < MaxInits
    /\ \E t \in ts :
        /\ ~SystimeMsSpins(TimeInitRates(split["loop"], "loop", t), SRaw)
        /\ SplitLeft([b \in Builds |-> SystimeTimeInit(split[b], SRaw, b, t)], TRUE)
        /\ scfg' = [scfg EXCEPT !.t1ms = t]
    /\ base' = [b \in Builds |->
                  [last |-> split[b].lastsystime_ticks, ms |-> split[b].systime_curr_ms]]
    /\ op' = "systime_time_init"
    /\ again' = (op = "systime_time_init")
    /\ arg' = 0
    /\ inits' = inits + 1
    /\ Sampled
    /\ UNCHANGED <<hw, pkg, word, fused, fcfg>>

DoSystimeTimeInit == SystimeTimeInitWith(TimeCfgs)

DoSystimeTick ==
    /\ TickReady
    /\ SplitLeft([b \in Builds |-> SystimeTick(split[b], SRaw)], FALSE)
    /\ op' = "systime_tick"
    /\ again' = (op = "systime_tick")
    /\ arg' = 0
    /\ Sampled
    /\ UNCHANGED <<hw, pkg, word, fused, fcfg, scfg, base, inits>>

DoSystimeMs ==
    /\ TimeReady
    /\ SplitLeft([b \in Builds |-> SystimeMs(split[b], SRaw, b)], FALSE)
    /\ op' = "systime_ms"
    /\ again' = (op = "systime_ms")
    /\ arg' = 0
    /\ Sampled
    /\ UNCHANGED <<hw, pkg, word, fused, fcfg, scfg, base, inits>>

DoSystimeSec ==
    /\ TimeReady
    /\ SplitLeft([b \in Builds |-> SystimeSec(split[b], SRaw, b)], FALSE)
    /\ op' = "systime_sec"
    /\ again' = (op = "systime_sec")
    /\ arg' = 0
    /\ Sampled
    /\ UNCHANGED <<hw, pkg, word, fused, fcfg, scfg, base, inits>>

DoSystimeSecSet ==
    /\ TimeReady
    /\ \E current_time \in SecSetArgs :
        /\ SplitLeft([b \in Builds |-> SystimeSecSet(split[b], SRaw, b, current_time)], TRUE)
        /\ arg' = current_time
    /\ op' = "systime_sec_set"
    /\ again' = (op = "systime_sec_set")
    /\ KeepPreset
    /\ UNCHANGED <<hw, pkg, word, fused, fcfg, scfg, base, inits>>

Next ==
    \/ HwAdvance
    \/ DoSystimeInit
    \/ DoSysticks
    \/ DoSystime3
    \/ DoSystimelast3
    \/ DoSystime
    \/ DoSystimelast
    \/ DoSystimeAdj
    \/ DoSystimeSet
    \/ DoSystimeTickInit
    \/ DoSystimeTimeInit
    \/ DoSystimeTick
    \/ DoSystimeMs
    \/ DoSystimeSec
    \/ DoSystimeSecSet

Spec == Init /\ [][Next]_vars

\* ------------------------------------------------------------- any arguments
\* arguments a caller can pass to systime_init: also a register of no bits or
\* of more bits than unsigned, no multiplier, no ticks in a millisecond
AnyFusedCfgs ==
    FusedCfgs \cup
    { [hw_bits |-> 0,  mult |-> 1, t1ms |-> 16],
      [hw_bits |-> 17, mult |-> 1, t1ms |-> 16],
      [hw_bits |-> 16, mult |-> 0, t1ms |-> 16],
      [hw_bits |-> 8,  mult |-> 1, t1ms |-> 0] }

AnyTickCfgs ==
    TickCfgs \cup
    { [hw_bits |-> 0,  mult |-> 1],
      [hw_bits |-> 17, mult |-> 1],
      [hw_bits |-> 16, mult |-> 0] }

DoSystimeInitAny == SystimeInitWith(AnyFusedCfgs)

DoSystimeTickInitAny == SystimeTickInitWith(AnyTickCfgs)

NextCfg ==
    \/ HwAdvance
    \/ DoSystimeInitAny
    \/ DoSystimeTickInitAny

SpecCfg == Init /\ [][NextCfg]_vars

\* ------------------------------------------------------------- pass-through
\* configurations of a register as wide as unsigned counted once a tick
PassCfgs ==
    { [hw_bits |-> UnsignedBits, mult |-> 1, t1ms |-> 16],
      [hw_bits |-> UnsignedBits, mult |-> 1, t1ms |-> 1000] }

PassTickCfgs == { [hw_bits |-> UnsignedBits, mult |-> 1] }

InitPass ==
    /\ word = NativeBits
    /\ pkg \in {"fused", "split"}
    /\ Zeroed
    /\ mac = NoMacro
    /\ twin = TwinZero(TRUE)
    /\ trace = <<>>
    /\ spin = "none"
    /\ other = [b \in Builds |-> FusedZero]

DoSystimeInitPass == SystimeInitWith(PassCfgs)

DoSystimeTickInitPass == SystimeTickInitWith(PassTickCfgs)

NextPass ==
    \/ HwAdvance
    \/ DoSystimeInitPass
    \/ DoSysticks
    \/ DoSystime3
    \/ DoSystimeTickInitPass
    \/ DoSystimeTick

SpecPass == InitPass /\ [][NextPass]_vars

\* ------------------------------------------------------------- one run, no wrap
\* a register as wide as unsigned, so that a run in which it does not wrap is a
\* run in which the polling is always frequent enough
DriftCfgs ==
    { [hw_bits |-> UnsignedBits, mult |-> 1, t1ms |-> 16],
      [hw_bits |-> UnsignedBits, mult |-> 1, t1ms |-> 1000],
      [hw_bits |-> UnsignedBits, mult |-> 2, t1ms |-> 7] }

DriftTickCfgs ==
    { [hw_bits |-> UnsignedBits, mult |-> 1],
      [hw_bits |-> UnsignedBits, mult |-> 2] }

\* the hardware counter runs on short of wrapping
HwAdvanceNoWrap == HwAdvance /\ hw' > hw

\* the one configuration of the run
DoSystimeInitOnce == inits = 0 /\ SystimeInitWith(DriftCfgs)

DoSystimeTickInitOnce == inits = 0 /\ SystimeTickInitWith(DriftTickCfgs)

DoSystimeTimeInitOnce == inits = 1 /\ DoSystimeTimeInit

NextDrift ==
    \/ HwAdvanceNoWrap
    \/ DoSystimeInitOnce
    \/ DoSystime3
    \/ DoSystimeTickInitOnce
    \/ DoSystimeTimeInitOnce
    \/ DoSystimeMs
    \/ DoSystimeSec

SpecDrift == Init /\ [][NextDrift]_vars

\* ------------------------------------------------------------- both packagings
\* the two packagings linked into one program, configured alike and queried
\* on the same samples
LockCfgs ==
    { [hw_bits |-> 8,  mult |-> 1, t1ms |-> 16],
      [hw_bits |-> 16, mult |-> 1, t1ms |-> 16],
      [hw_bits |-> 16, mult |-> 2, t1ms |-> 7] }

\* 16010 ticks are 1000 ms at 16 ticks a millisecond
LockDeltas == {192, 3501, 16010}

InitBoth ==
    /\ word = NativeBits
    /\ pkg = "both"
    /\ Zeroed
    /\ mac = NoMacro
    /\ twin = TwinZero(FALSE)
    /\ trace = <<>>
    /\ spin = "none"
    /\ other = [b \in Builds |-> FusedZero]

HwAdvanceBoth == pkg = "both" /\ HwAdvanceBy(LockDeltas)

\* systime_init(fcn, c) and systime_tick_init(fcn, c), systime_time_init(c),
\* the one configuration of the run
DoInitBoth ==
    /\ pkg = "both" /\ Budget /\ inits = 0
    /\ \E c \in LockCfgs : \E m \in Masks(c.hw_bits) :
        /\ FusedLeft([b \in Builds |->
                        SystimeInit(fused[b], ReadTimer(hw, c.hw_bits), b,
                                    c.hw_bits, c.mult, c.t1ms, m)], TRUE)
        /\ split' = [b \in Builds |->
                        SystimeTimeInit(
                            SystimeTickInit(split[b], ReadTimer(hw, c.hw_bits),
                                            c.hw_bits, c.mult, m).st,
                            ReadTimer(hw, c.hw_bits), b, c.t1ms).st]
        /\ fcfg' = c
        /\ scfg' = c
    /\ op' = "systime_init"
    /\ again' = (op = "systime_init")
    /\ arg' = 0
    /\ inits' = inits + 1
    /\ Sampled
    /\ UNCHANGED <<hw, pkg, word, base>>

\* systime3(&t) and systime_sec() on the same sample
DoQueryBoth ==
    /\ pkg = "both" /\ Budget /\ fused["loop"].systickshw = "fcn"
    /\ FusedLeft([b \in Builds |-> Systime3(fused[b], FRaw, b)], FALSE)
    /\ split' = [b \in Builds |-> SystimeSec(split[b], SRaw, b).st]
    /\ op' = "systime3"
    /\ again' = (op = "systime3")
    /\ arg' = 0
    /\ Sampled
    /\ UNCHANGED <<hw, pkg, word, fcfg, scfg, base, inits>>

NextBoth ==
    \/ HwAdvanceBoth
    \/ DoInitBoth
    \/ DoQueryBoth

SpecBoth == InitBoth /\ [][NextBoth]_vars

\* ------------------------------------------------------------- scripted samples
\* systime.c:85 systime_init(timer_read, 16, 1, 1000) on a target whose
\* unsigned is wider than the register
ScenCfg == [hw_bits |-> 16, mult |-> 1, t1ms |-> 1000]

\* the register values the hardware source returns, one a query
ScenSamples == <<0, 500, 65500, 300>>

ScenRaws == {ScenSamples[i] : i \in 1..Len(ScenSamples)}

InitWide ==
    /\ word = WideBits
    /\ pkg = "fused"
    /\ Zeroed
    /\ mac = NoMacro
    /\ twin = TwinZero(FALSE)
    /\ trace = <<>>
    /\ spin = "none"
    /\ other = [b \in Builds |-> FusedZero]

\* the call the source answered with hw', and what the call left
Fed ==
    /\ trace' = Append(trace, [raw |-> hw', st |-> fused'])
    /\ since' = 0
    /\ since2' = 0
    /\ preset' = NoPreset
    /\ steps' = steps + 1
    /\ UNCHANGED <<pkg, word, split, scfg, mac, twin, spin, other>>

\* systime_init(fcn, 16, 1, 1000), the source returning raw to its priming query
DoSystimeInitFed ==
    /\ pkg = "fused" /\ trace = <<>>
    /\ \E raw \in ScenRaws : \E m \in Masks(ScenCfg.hw_bits) :
        /\ hw' = raw
        /\ FusedLeft([b \in Builds |->
                        SystimeInit(fused[b], ReadTimer(raw, ScenCfg.hw_bits), b,
                                    ScenCfg.hw_bits, ScenCfg.mult, ScenCfg.t1ms, m)],
                     TRUE)
    /\ fcfg' = ScenCfg
    /\ base' = [b \in Builds |->
                  [last |-> fused[b].last_systime_ticks, ms |-> fused[b].milisec]]
    /\ op' = "systime_init"
    /\ again' = (op = "systime_init")
    /\ arg' = 0
    /\ inits' = inits + 1
    /\ Fed

\* systime3(&t), the source returning raw
DoSystime3Fed ==
    /\ pkg = "fused" /\ fused["loop"].systickshw = "fcn"
    /\ Len(trace) < Len(ScenSamples)
    /\ \E raw \in ScenRaws :
        /\ hw' = raw
        /\ FusedLeft([b \in Builds |->
                        Systime3(fused[b], ReadTimer(raw, fcfg.hw_bits), b)], FALSE)
    /\ op' = "systime3"
    /\ again' = (op = "systime3")
    /\ arg' = 0
    /\ Fed
    /\ UNCHANGED <<fcfg, base, inits>>

NextWide ==
    \/ DoSystimeInitFed
    \/ DoSystime3Fed

SpecWide == InitWide /\ [][NextWide]_vars

\* ------------------------------------------------------------- any rate
\* ticks_for_1ms of which 100 * ticks_for_1ms is 0 in a 16-bit unsigned
\* (16384), and one of which 50 * ticks_for_1ms is (32768), beside one whose
\* products fit
SpinCfgs ==
    { [hw_bits |-> 16, mult |-> 1, t1ms |-> 16],
      [hw_bits |-> 16, mult |-> 1, t1ms |-> 16384],
      [hw_bits |-> 8,  mult |-> 1, t1ms |-> 16384] }

SpinRates == {16, 32768}

\* the firmware is single-threaded: nothing runs once a call spins
Running == spin = "none"

HwAdvanceRunning == Running /\ HwAdvance

DoSystimeInitRate == Running /\ SystimeInitWith(SpinCfgs)

DoSystime3Returns ==
    /\ Running /\ FusedReady
    /\ ~Systime3Spins(fused["loop"], FRaw)
    /\ DoSystime3

DoSystime3Spins ==
    /\ Running /\ FusedReady
    /\ Systime3Spins(fused["loop"], FRaw)
    /\ spin' = "systime3"
    /\ UNCHANGED <<MainVars, twin, mac, trace, other>>

DoSystimeTickInitRate == Running /\ DoSystimeTickInit

DoSystimeTimeInitRate == Running /\ SystimeTimeInitWith(SpinRates)

DoSystimeTimeInitSpins ==
    /\ Running /\ TickReady /\ inits < MaxInits
    /\ \E t \in SpinRates :
        SystimeMsSpins(TimeInitRates(split["loop"], "loop", t), SRaw)
    /\ spin' = "systime_time_init"
    /\ UNCHANGED <<MainVars, twin, mac, trace, other>>

DoSystimeMsReturns ==
    /\ Running /\ TimeReady
    /\ ~SystimeMsSpins(split["loop"], SRaw)
    /\ DoSystimeMs

DoSystimeMsSpins ==
    /\ Running /\ TimeReady
    /\ SystimeMsSpins(split["loop"], SRaw)
    /\ spin' = "systime_ms"
    /\ UNCHANGED <<MainVars, twin, mac, trace, other>>

\* systime_sec() returns when its systime_ms() does
DoSystimeSecReturns ==
    /\ Running /\ TimeReady
    /\ ~SystimeMsSpins(split["loop"], SRaw)
    /\ DoSystimeSec

DoSystimeSecSpins ==
    /\ Running /\ TimeReady
    /\ SystimeMsSpins(split["loop"], SRaw)
    /\ spin' = "systime_sec"
    /\ UNCHANGED <<MainVars, twin, mac, trace, other>>

NextSpin ==
    \/ HwAdvanceRunning
    \/ DoSystimeInitRate
    \/ DoSystime3Returns
    \/ DoSystime3Spins
    \/ DoSystimeTickInitRate
    \/ DoSystimeTimeInitRate
    \/ DoSystimeTimeInitSpins
    \/ DoSystimeMsReturns
    \/ DoSystimeMsSpins
    \/ DoSystimeSecReturns
    \/ DoSystimeSecSpins

SpecSpin == Init /\ [][NextSpin]_vars

\* ------------------------------------------------------------- frequent polling
\* the width of the register the firmware is configured for; before the one
\* init call of the run, that of the narrowest register
LiveBits ==
    IF inits = 0 THEN 8
    ELSE IF pkg = "fused" THEN fcfg.hw_bits ELSE scfg.hw_bits

\* the hardware counter runs on by fewer than 2^W counts since the last sample
HwAdvanceLive == HwAdvance /\ since' < 2 ^ LiveBits

DoSystimeInitLive == inits = 0 /\ DoSystimeInit

DoSystimeTickInitLive == inits = 0 /\ DoSystimeTickInit

NextLive ==
    \/ HwAdvanceLive
    \/ DoSystimeInitLive
    \/ DoSysticks
    \/ DoSystime3
    \/ DoSystimeTickInitLive
    \/ DoSystimeTick

SpecLive == Init /\ [][NextLive]_vars

\* ------------------------------------------------------------- two schedules
\* two runs of the fused packaging on one hardware counter, configured alike
\* at the same instant and polled each on its own schedule; since counts the
\* hardware counts since the first run sampled, since2 since the second did
PollCalls == {"systicks", "systime3"}

\* systicks() or systime3(&t)
Poll(s, raw, b, call) == IF call = "systicks" THEN Systicks(s, raw) ELSE Systime3(s, raw, b)

PairFrame == UNCHANGED <<hw, pkg, word, split, scfg, preset, twin, mac, trace, spin>>

\* the hardware counter runs on, neither it nor the tick count wrapping the
\* word, by fewer than 2^W counts since either run sampled
HwAdvancePair ==
    /\ pkg = "fused"
    /\ HwAdvance
    /\ hw' > hw
    /\ fcfg.mult * hw' < UMod
    /\ since' < 2 ^ LiveBits
    /\ since2' < 2 ^ LiveBits

\* systime_init(fcn, c) in both runs
DoInitPair ==
    /\ pkg = "fused" /\ Budget /\ inits = 0
    /\ \E c \in FusedCfgs : \E m \in Masks(c.hw_bits) :
        /\ FusedLeft([b \in Builds |->
                        SystimeInit(fused[b], ReadTimer(hw, c.hw_bits), b,
                                    c.hw_bits, c.mult, c.t1ms, m)], TRUE)
        /\ other' = [b \in Builds |->
                        SystimeInit(other[b], ReadTimer(hw, c.hw_bits), b,
                                    c.hw_bits, c.mult, c.t1ms, m).st]
        /\ fcfg' = c
    /\ base' = [b \in Builds |->
                  [last |-> fused[b].last_systime_ticks, ms |-> fused[b].milisec]]
    /\ op' = "systime_init"
    /\ again' = (op = "systime_init")
    /\ arg' = 0
    /\ inits' = inits + 1
    /\ since' = 0
    /\ since2' = 0
    /\ steps' = steps + 1
    /\ PairFrame

\* an intermediate call of the first run
DoPollFirst ==
    /\ FusedReady
    /\ \E call \in PollCalls :
        /\ FusedLeft([b \in Builds |-> Poll(fused[b], FRaw, b, call)], FALSE)
        /\ op' = call
    /\ again' = FALSE
    /\ arg' = 0
    /\ since' = 0
    /\ steps' = steps + 1
    /\ PairFrame
    /\ UNCHANGED <<fcfg, base, inits, since2, other>>

\* an intermediate call of the second run
DoPollSecond ==
    /\ FusedReady
    /\ \E call \in PollCalls :
        /\ other' = [b \in Builds |-> Poll(other[b], FRaw, b, call).st]
        /\ op' = call
    /\ again' = FALSE
    /\ arg' = 0
    /\ since2' = 0
    /\ steps' = steps + 1
    /\ PairFrame
    /\ UNCHANGED <<fcfg, base, inits, since, fused, ret, hwcalls>>

\* the final systime3(&t) of both runs, at the same instant
DoSystime3Pair ==
    /\ FusedReady
    /\ FusedLeft([b \in Builds |-> Systime3(fused[b], FRaw, b)], FALSE)
    /\ other' = [b \in Builds |-> Systime3(other[b], FRaw, b).st]
    /\ op' = "systime3 systime3"
    /\ again' = FALSE
    /\ arg' = 0
    /\ since' = 0
    /\ since2' = 0
    /\ steps' = steps + 1
    /\ PairFrame
    /\ UNCHANGED <<fcfg, base, inits>>

NextPair ==
    \/ HwAdvancePair
    \/ DoInitPair
    \/ DoPollFirst
    \/ DoPollSecond
    \/ DoSystime3Pair

SpecPair == Init /\ [][NextPair]_vars

\* ------------------------------------------------------------- the macros
\* the counters the macros read: systime_tick(), systime_ms(), systime_sec()
Units == {"tick", "ms", "sec"}

\* values read from a counter and kept as start
Starts == {0, 40000, 65535}

\* intervals waited for
Intervals == {0, 30000, 65535}

\* units a counter advances between two reads
Runs == {5535, 30000}

\* a caller has read start from the counter of one unit
InitMacro ==
    /\ word = NativeBits
    /\ pkg = "split"
    /\ Zeroed
    /\ \E u \in Units, st \in Starts, i \in Intervals :
        mac = [NoMacro EXCEPT !.unit = u, !.start = st, !.now = st, !.interval = i]
    /\ twin = TwinZero(FALSE)
    /\ trace = <<>>
    /\ spin = "none"
    /\ other = [b \in Builds |-> FusedZero]

\* the counter advances, by less than 2^N units since start was read
CounterRuns ==
    /\ \E r \in Runs :
        /\ mac.d + r < UMod
        /\ mac' = [mac EXCEPT !.now = UAdd(@, r), !.d = @ + r, !.mop = "none",
                              !.elapsed = 0, !.expired = FALSE]
    /\ UNCHANGED <<MainVars, twin, trace, spin, other>>

MacroElapsed(u, name) ==
    /\ mac.unit = u
    /\ mac' = [mac EXCEPT !.elapsed = Elapsed(mac.now, mac.start), !.mop = name]
    /\ UNCHANGED <<MainVars, twin, trace, spin, other>>

MacroExpired(u, name) ==
    /\ mac.unit = u
    /\ mac' = [mac EXCEPT !.expired = Expired(mac.now, mac.start, mac.interval),
                          !.mop = name]
    /\ UNCHANGED <<MainVars, twin, trace, spin, other>>

TickElapsed == MacroElapsed("tick", "systime_tick_elapsed")

TickExpired == MacroExpired("tick", "systime_tick_expired")

MsElapsed == MacroElapsed("ms", "systime_ms_elapsed")

MsExpired == MacroExpired("ms", "systime_ms_expired")

SecElapsed == MacroElapsed("sec", "systime_sec_elapsed")

SecExpired == MacroExpired("sec", "systime_sec_expired")

NextMacro ==
    \/ CounterRuns
    \/ TickElapsed
    \/ TickExpired
    \/ MsElapsed
    \/ MsExpired
    \/ SecElapsed
    \/ SecExpired

SpecMacro == InitMacro /\ [][NextMacro]_vars

\* ------------------------------------------------------------- properties
\* the step is a call of function o
Called(o) == steps' = steps + 1 /\ hw' = hw /\ op' = o

FusedSamplers == {"systime_init", "systicks", "systime3", "systime", "systime_set"}

SplitSamplers == {"systime_tick_init", "systime_time_init", "systime_tick",
                  "systime_ms", "systime_sec", "systime_sec_set"}

\* the widener's step written with the modulus in place of the mask
WideStep(ticks, last, raw, W, mult) ==
    (ticks + ((mult * ((raw - last) % (2 ^ W))) % UMod)) % UMod

\* C1: in masked mode every call that samples the hardware adds
\* tick_multiplier * ((raw - last_timer_ticks) mod 2^W) to the wide tick
\* counter, modulo the word, and leaves last_timer_ticks at the raw sample;
\* W is the width the call runs with, in both packagings and both builds
C1_WidenerStep ==
    [][/\ \A b \in Builds :
            (\E o \in FusedSamplers : Called(o)) /\ fused'[b].use_hw_systicks = 0
            => /\ fused'[b].ticks =
                    WideStep(fused[b].ticks, fused[b].last_timer_ticks,
                             ReadTimer(hw', fcfg'.hw_bits), fcfg'.hw_bits, fcfg'.mult)
               /\ fused'[b].last_timer_ticks = ReadTimer(hw', fcfg'.hw_bits)
       /\ \A b \in Builds :
            /\ \E o \in SplitSamplers : Called(o)
            /\ split'[b].systime_tick_current = "systime_tick_internal"
            => /\ split'[b].systime_curr_ticks =
                    WideStep(split[b].systime_curr_ticks, split[b].last_timer_ticks,
                             ReadTimer(hw', scfg'.hw_bits), scfg'.hw_bits, scfg'.mult)
               /\ split'[b].last_timer_ticks = ReadTimer(hw', scfg'.hw_bits)
      ]_vars

\* the wide tick count the last query accounted against
FusedNow(b) == IF fused[b].use_hw_systicks = 1 THEN FRaw ELSE fused[b].ticks

SplitNow(b) ==
    IF split[b].systime_tick_current = "fcn" THEN SRaw ELSE split[b].systime_curr_ticks

\* C2: after every return of systime3() and of systime_ms() the sampled tick
\* count is less than one millisecond of ticks past the aligned tick mark:
\* (now - last_aligned_tick) mod 2^N < ticks_per_ms
C2_MsAligned ==
    /\ pkg = "fused" /\ op = "systime3"
       => USub(ret["loop"].t.ticks, fused["loop"].last_systime_ticks)
            < fused["loop"].ticks1ms
    /\ pkg = "split" /\ op = "systime_ms"
       => USub(SplitNow("loop"), split["loop"].lastsystime_ticks)
            < split["loop"].ticks1ms

\* C3: from initialisation on the aligned tick mark has moved by exactly
\* ticks_per_ms for every millisecond counted, modulo the word; the ticks not
\* yet counted stay in front of it
C3_RemainderKept ==
    /\ pkg = "fused" /\ fcfg # NoCfg
       => \A b \in Builds :
            fused[b].last_systime_ticks =
                (base[b].last + (USub(fused[b].milisec, base[b].ms) * fcfg.t1ms)) % UMod
    /\ pkg = "split" /\ scfg.t1ms # 0
       => \A b \in Builds :
            split[b].lastsystime_ticks =
                (base[b].last + (USub(split[b].systime_curr_ms, base[b].ms) * scfg.t1ms)) % UMod

\* the ladder has counted milliseconds and left a remainder of ticks behind
C3_Witness ==
    /\ pkg = "fused" /\ op = "systime3" /\ fcfg.t1ms = 1000
    /\ fused["loop"].milisec >= 10
    /\ ret["loop"].t.ticks # fused["loop"].last_systime_ticks
    /\ fused["div"].milisec >= 10

\* C4: the build with the divide instruction and the build with the
\* subtraction ladder return the same milliseconds and seconds from
\* systime3(), whatever the tick difference
C4_DivEquivalent ==
    pkg = "fused" /\ op = "systime3"
    => /\ ret["loop"].t.msec = ret["div"].t.msec
       /\ ret["loop"].t.sec = ret["div"].t.sec
       /\ ret["loop"].val = ret["div"].val

\* C5: after every return of systime3() less than a second of milliseconds
\* is left uncounted: (milisec - last_ms) mod 2^N < 1000
C5_SecAligned ==
    pkg = "fused" /\ op = "systime3"
    => USub(fused["loop"].milisec, fused["loop"].last_ms) < 1000

\* the statics of build b with the offset taken out
FusedButOffset(f, b) == [f[b] EXCEPT !.sec_offset = U32Zero]

\* C6: the seconds systime3(), systimelast3(), systime() and systimelast()
\* report are (sec + sec_offset) mod 2^32; systime_adj(d) adds d to
\* sec_offset modulo 2^32, changes nothing else and samples no hardware
C6_OffsetSeconds ==
    [][\A b \in Builds :
        /\ Called("systime3") \/ Called("systimelast3")
           => ret'[b].t.sec = U32Add(fused'[b].sec, fused'[b].sec_offset)
        /\ Called("systime") \/ Called("systimelast")
           => ret'[b].val = U32Add(fused'[b].sec, fused'[b].sec_offset)
        /\ Called("systime_adj")
           => /\ fused'[b].sec_offset = U32Add(fused[b].sec_offset, arg')
              /\ FusedButOffset(fused', b) = FusedButOffset(fused, b)
              /\ hwcalls'[b] = 0
      ]_vars

\* seconds have been counted, the offset was moved back by one across zero,
\* and both queries that sample nothing report the sum
C6_Witness ==
    /\ pkg = "fused" /\ op = "systimelast"
    /\ fused["div"].sec # U32Zero
    /\ fused["div"].sec_offset = U32(65535, 65535)
    /\ ret["div"].val = U32Sub(fused["div"].sec, U32(0, 1))

\* C7: systime_set(T) leaves systimelast() at T and sec_offset at
\* (T - sec) mod 2^32; it leaves in sec and every other static what the
\* systime() it calls leaves there; a systime() after it that counts no
\* further second returns T
C7_SetSeconds ==
    [][\A b \in Builds :
        /\ Called("systime_set")
           => /\ Systimelast(fused'[b]).val = arg'
              /\ fused'[b].sec_offset = U32Sub(arg', fused'[b].sec)
              /\ FusedButOffset(fused', b)
                    = [Systime(fused[b], FRaw, b).st EXCEPT !.sec_offset = U32Zero]
        /\ pkg = "fused" /\ op = "systime_set" /\ Called("systime")
           /\ fused'[b].sec = fused[b].sec
           => ret'[b].val = arg
      ]_vars

\* seconds were counted before the set, so the offset is T - sec below zero
C7_Witness ==
    /\ pkg = "fused" /\ op = "systime_set" /\ arg = U32(0, 5)
    /\ fused["div"].sec = U32(0, 8)
    /\ fused["div"].sec_offset = U32(65535, 65533)

\* the ticks that statics f had sampled and not yet counted as milliseconds
FusedWindow(f, b) ==
    USub(IF f[b].use_hw_systicks = 1 THEN USub(hw, since2) ELSE f[b].ticks,
         f[b].last_systime_ticks)

SplitWindow(f, b) ==
    USub(IF f[b].systime_tick_current = "fcn" THEN USub(hw, since2)
         ELSE f[b].systime_curr_ticks,
         f[b].lastsystime_ticks)

\* the queries were frequent enough for a run without the set calls: the
\* register has not wrapped and the uncounted ticks fit the word
FusedInTime(b) ==
    /\ since2 < 2 ^ fcfg.hw_bits
    /\ FusedWindow(preset.fused, b) + (fcfg.mult * since2) < UMod

SplitInTime(b) ==
    /\ since2 < 2 ^ scfg.hw_bits
    /\ SplitWindow(preset.split, b) + (scfg.mult * since2) < UMod

\* C8: systime_set() and systime_sec_set() change the reported seconds only:
\* the millisecond query after them returns the milliseconds and the ticks
\* it would have returned had the set calls not been made
C8_SetLeavesMs ==
    [][\A b \in Builds :
        /\ pkg = "fused" /\ preset.valid /\ Called("systime3") /\ FusedInTime(b)
           => /\ ret'[b].val = Systime3(preset.fused[b], FRaw, b).val
              /\ ret'[b].t.ticks = Systime3(preset.fused[b], FRaw, b).t.ticks
        /\ pkg = "split" /\ preset.valid /\ Called("systime_ms") /\ SplitInTime(b)
           => ret'[b].val = SystimeMs(preset.split[b], SRaw, b).val
      ]_vars

\* C9: systimelast3() changes no static and samples no hardware, and a
\* second call right after the first returns the same seconds, milliseconds
\* and ticks, however far the hardware has run in between
C9_LastIdempotent ==
    [][Called("systimelast3")
       => /\ fused' = fused
          /\ \A b \in Builds : hwcalls'[b] = 0
          /\ op = "systimelast3" => ret' = ret
      ]_vars

\* systimelast3() was called twice in a row after a query that had counted
\* milliseconds and left ticks uncounted
C9_Witness ==
    /\ pkg = "fused" /\ op = "systimelast3" /\ again
    /\ ret["loop"].t.msec > 0
    /\ ret["loop"].t.ticks > 0
    /\ FusedNow("loop") # fused["loop"].last_systime_ticks
    /\ ret["loop"].t.ticks = fused["loop"].last_systime_ticks

\* C10: systime3() samples the hardware source exactly once in masked mode
\* and in pass-through mode; systimelast3() and systimelast() never do
C10_SampleCount ==
    pkg = "fused" =>
        \A b \in Builds :
            /\ op = "systime3" => hwcalls[b] = 1
            /\ op \in {"systimelast3", "systimelast"} => hwcalls[b] = 0

\* systime3() has returned in masked mode with ticks counted by the widener
C10_Witness ==
    /\ pkg = "fused" /\ op = "systime3"
    /\ fused["loop"].use_hw_systicks = 0
    /\ fused["loop"].ticks > 0
    /\ hwcalls["loop"] = 1

\* C11: systimelast3(&b) right after systime3(&a) hands back the seconds
\* and milliseconds of a, and ticks that are not ahead of a.ticks and at
\* most ticks_per_ms behind: (a.ticks - b.ticks) mod 2^N <= ticks_per_ms
C11_LastBehindCurrent ==
    [][\A b \in Builds :
        pkg = "fused" /\ op = "systime3" /\ Called("systimelast3")
        => /\ ret'[b].t.sec = ret[b].t.sec
           /\ ret'[b].t.msec = ret[b].t.msec
           /\ ret'[b].val = ret[b].val
           /\ USub(ret[b].t.ticks, ret'[b].t.ticks) <= fcfg.t1ms
      ]_vars

\* the last query follows the first current query after init, which counted
\* milliseconds and left exactly ticks_per_ms ticks behind
C11_Witness ==
    /\ pkg = "fused" /\ op = "systimelast3" /\ ~again
    /\ steps = 4 /\ inits = 1 /\ since = 0
    /\ fused["loop"].sec_offset = U32Zero
    /\ ret["loop"].t.msec > 0
    /\ USub(FusedNow("loop"), ret["loop"].t.ticks) = fcfg.t1ms

\* C12: when the counter of a unit has advanced by d < 2^N units since
\* start was read, wrapping or not, the elapsed macro of the unit yields d
\* and the expired macro is true exactly when d >= interval
C12_WrapSafeMacros ==
    /\ mac.mop \in {"systime_tick_elapsed", "systime_ms_elapsed", "systime_sec_elapsed"}
       => mac.elapsed = mac.d
    /\ mac.mop \in {"systime_tick_expired", "systime_ms_expired", "systime_sec_expired"}
       => mac.expired = (mac.d >= mac.interval)

\* the millisecond counter has wrapped past 2^N - 1 since start was read and
\* the macro yields the units it advanced
C12_Witness ==
    /\ mac.mop = "systime_ms_elapsed"
    /\ mac.now < mac.start
    /\ mac.d > 30000
    /\ mac.elapsed = mac.d

\* the configurations the contract admits
ValidCfg(c) == c.hw_bits \in 1..UnsignedBits /\ c.mult >= 1 /\ c.t1ms >= 1

ValidTickCfg(c) == c.hw_bits \in 1..UnsignedBits /\ c.mult >= 1

\* C13: an init call given a register of no bits or of more bits than the
\* word, no ticks in a millisecond or no multiplier is rejected: it installs
\* nothing in the statics
C13_InvalidRejected ==
    [][/\ Called("systime_init") /\ ~ValidCfg(fcfg') => fused' = fused
       /\ Called("systime_tick_init") /\ ~ValidTickCfg(scfg') => split' = split
      ]_vars

\* C14: configured from the zeroed statics for a register as wide as unsigned
\* and multiplier 1, a tick query returns the raw value it sampled, and that is
\* the count the masked path with mask 2^N - 1 and multiplier 1 holds after the
\* same samples
C14_PassThrough ==
    twin.on /\ since = 0 =>
        /\ op = "systicks" =>
              \A b \in Builds : /\ ret[b].val = ReadTimer(hw, UnsignedBits)
                                /\ ret[b].val = twin.f.ticks
        /\ op = "systime3" =>
              \A b \in Builds : /\ ret[b].t.ticks = ReadTimer(hw, UnsignedBits)
                                /\ ret[b].t.ticks = twin.f.ticks
        /\ op = "systime_tick" =>
              \A b \in Builds : /\ ret[b].val = ReadTimer(hw, UnsignedBits)
                                /\ ret[b].val = twin.s.systime_curr_ticks

C14_Witness ==
    /\ twin.on /\ since = 0 /\ op = "systime_tick" /\ ~again /\ steps = 5
    /\ inits = 1 /\ hw > 0
    /\ ret["loop"].val = twin.s.systime_curr_ticks
    /\ twin.s.last_timer_ticks = hw

\* the split statics with the millisecond accounting reset
FreshMs(s) == [s EXCEPT !.systime_curr_ms = 0, !.lastsystime_ticks = 0]

\* C15: the millisecond layer's init resets the accounting, so what it leaves
\* does not depend on the queries before it: systime_init leaves milisec, sec
\* and last_ms zero, systime_time_init leaves systime_curr_ms zero or what its
\* priming query counts from a reset accounting
C15_InitResets ==
    [][\A b \in Builds :
        /\ pkg = "fused" /\ Called("systime_init")
           => /\ fused'[b].milisec = 0
              /\ fused'[b].sec = U32Zero
              /\ fused'[b].last_ms = 0
        /\ pkg = "split" /\ Called("systime_time_init")
           => split'[b].systime_curr_ms \in
                 {0, SystimeTimeInit(FreshMs(split[b]), SRaw, b, scfg'.t1ms).st.systime_curr_ms}
      ]_vars

\* C16: after systime_sec_set(T) systime_curr_sec is T, whatever the count was,
\* and every other static, last_ms among them, is what the systime_sec() it
\* calls left, less than 1000 ms behind the millisecond count; the query after
\* it counts a second for every full 1000 ms past last_ms
C16_SecSetAbsolute ==
    [][\A b \in Builds :
        /\ pkg = "split" /\ Called("systime_sec_set")
           => /\ split'[b].systime_curr_sec = arg'
              /\ split'[b] = [SystimeSec(split[b], SRaw, b).st
                                EXCEPT !.systime_curr_sec = arg']
              /\ USub(split'[b].systime_curr_ms, split'[b].last_ms) < 1000
        /\ pkg = "split" /\ op = "systime_sec_set" /\ Called("systime_sec")
           => ret'[b].val =
                UAdd(split[b].systime_curr_sec,
                     USub(split'[b].systime_curr_ms, split[b].last_ms) \div 1000)
      ]_vars

C16_Witness ==
    /\ pkg = "split" /\ op = "systime_sec_set" /\ arg = 2
    /\ split["loop"].systime_curr_sec = 2
    /\ split["loop"].last_ms = 1000
    /\ split["loop"].systime_curr_ms > 1000

\* the register has run from 0 and neither it nor the tick count has wrapped
FusedNoWrap == fcfg.mult * hw < UMod

SplitNoWrap == scfg.mult * hw < UMod

Near(x, y) == x - y \in {-1, 0, 1}

\* C17: with one configuration and polling that wraps neither the register
\* nor the tick count, after every query the millisecond count is within 1 of
\* floor(E / ticks_per_ms) and the second count within 1 of
\* floor(E / (1000 * ticks_per_ms)), E the internal tick count the query
\* sampled, counted from 0
C17_NoDrift ==
    \A b \in Builds :
        /\ pkg = "fused" /\ op = "systime3" /\ since = 0 /\ FusedNoWrap
           => /\ Near(fused[b].milisec, FusedNow(b) \div fcfg.t1ms)
              /\ fused[b].sec[1] = 0
              /\ Near(fused[b].sec[2], FusedNow(b) \div (1000 * fcfg.t1ms))
        /\ pkg = "split" /\ op = "systime_sec" /\ since = 0 /\ SplitNoWrap
           => /\ Near(split[b].systime_curr_ms, SplitNow(b) \div scfg.t1ms)
              /\ Near(split[b].systime_curr_sec, SplitNow(b) \div (1000 * scfg.t1ms))

\* C18: configured alike and queried on the same samples, systime3() of the
\* fused packaging (no offset set) and systime_tick / systime_ms / systime_sec
\* of the split packaging hold the same tick, millisecond and second counts
\* after every query, the tick count not having wrapped
C18_PackagingsAgree ==
    pkg = "both" /\ op = "systime3" /\ since = 0 /\ FusedNoWrap =>
        \A b \in Builds :
            /\ ret[b].t.ticks = SplitNow(b)
            /\ ret[b].t.msec = split[b].systime_curr_ms
            /\ ret[b].t.sec = U32Of(split[b].systime_curr_sec)

\* the samples of the scenario were fed, one a query, init's priming query first
ScenFed == Len(trace) = Len(ScenSamples) /\ \A i \in 1..Len(trace) : trace[i].raw = ScenSamples[i]

\* C19: a 16-bit register counted once a tick at 1000 ticks a millisecond on a
\* wider word, fed 0, 500, 65500, 300 from the zeroed statics: the tick count is
\* 0, 500, 65500 and then 65836, and the last query leaves 65 ms with 836
\* ticks past the aligned tick mark
C19_WrapScenario ==
    ScenFed =>
        \A b \in Builds :
            /\ trace[1].st[b].ticks = 0
            /\ trace[2].st[b].ticks = 500
            /\ trace[3].st[b].ticks = 65500
            /\ trace[4].st[b].ticks = 65836
            /\ ret[b].t.ticks = 65836
            /\ ret[b].val = 65
            /\ fused[b].milisec = 65
            /\ USub(fused[b].ticks, fused[b].last_systime_ticks) = 836

C19_Witness ==
    /\ ScenFed /\ op = "systime3" /\ hw = 300
    /\ fused["loop"].ticks = 65836
    /\ fused["loop"].last_timer_ticks = 300

\* C20: for every ticks_per_ms >= 1 of the word, the products 10, 50 and
\* 100 * ticks_per_ms wrapping or not, every call of systime3(), systime_ms()
\* and systime_sec() returns
C20_EveryQueryReturns == spin = "none"


\* C21: the hardware counter running from 0 and never advancing by 2^W or more
\* between two samples, after every sampling call the wide tick count is
\* tick_multiplier * (the hardware counts elapsed) modulo 2^N, however often
\* the W-bit register has wrapped
C21_IdealClock ==
    since = 0 /\ inits = 1 =>
        \A b \in Builds :
            /\ pkg = "fused" => FusedNow(b) = UMul(fcfg.mult, hw)
            /\ pkg = "split" => SplitNow(b) = UMul(scfg.mult, hw)


\* C22: two runs configured alike at the same instant and polled on different
\* schedules, both often enough, hold the same ticks, milisec and sec after a
\* systime3() that both make at the same instant
C22_CadenceIndependent ==
    op = "systime3 systime3" =>
        \A b \in Builds :
            /\ other[b].ticks = fused[b].ticks
            /\ other[b].milisec = fused[b].milisec
            /\ other[b].sec = fused[b].sec

====
